---------------------------- MODULE Spec2Model ----------------------------
(***************************************************************************)
(* Model of package gguf (src/encoding/gguf/gguf.go): the walker that      *)
(* turns the flat list of dotted tensor names into struct / slice / leaf   *)
(* views, the leaf materialisation arrayFuture.Value, and the decoder's    *)
(* mutex that serialises the tensor readers.                               *)
(*                                                                         *)
(* Go strings are modelled as sequences of one-character strings, so that  *)
(* strings.Split and strconv.Atoi are computed character by character.     *)
(***************************************************************************)
EXTENDS Integers, Sequences, FiniteSets, TLC

(***************************************************************************)
(* Bounds of the model.                                                    *)
(***************************************************************************)
\* Total size of the tensor names of a container: every name costs its
\* length plus one.
MaxChars == 6
\* Index() is probed with -1..MaxIndex besides the indices that are present.
MaxIndex == 3
\* Tensor records Value() is run on: at most MaxRank dimensions, each at most
\* MaxDim, and at most MaxSize bytes.
MaxRank == 2
MaxDim == 3
MaxSize == 25
\* Number of goroutines that call Value() concurrently.
NThreads == 3

\* Characters the tensor names are made of: a letter, the separator, three
\* digits and the minus sign.
Chars == {"a", ".", "0", "1", "2", "-"}

VARIABLES
    tensors,    \* decoder.tensors: the records, in the container's order
    w,          \* the walker value the engine currently holds
    last,       \* the last walker call: [op, arg, err]
    base,       \* the set of the walkerData the last slice was built from
    descent,    \* names of the successful Field calls since the root
    pure,       \* TRUE while the view was reached from the root by Field only
    future,     \* the arrayFuture the last call returned, or NoFuture
    locker,     \* decoder.locker: TRUE when the mutex is locked
    pc,         \* where each goroutine is in its Value() call
    ti,         \* the tensor (index in tensors) of each goroutine's future
    result,     \* how each goroutine's Value() call ended
    acq,        \* number of times each goroutine has locked the mutex
    rel,        \* number of times each goroutine has unlocked the mutex
    grants,     \* number of Lock() calls that have returned so far
    ticket      \* the rank of each goroutine's Lock() among them

walkerVars == <<w, last, base, descent, pure, future>>
gateVars == <<locker, pc, ti, result, acq, rel, grants, ticket>>
vars == <<tensors, walkerVars, gateVars>>

----------------------------------------------------------------------------
(***************************************************************************)
(* Library functions the walker relies on.                                 *)
(***************************************************************************)
Sep == "."

\* strings.Split(s, "."): the pieces of s between the separators; a string
\* without separator (the empty string too) is returned as its one piece.
RECURSIVE Split(_)
Split(s) ==
    IF \A i \in DOMAIN s : s[i] # Sep
    THEN <<s>>
    ELSE LET i == CHOOSE k \in DOMAIN s :
                      s[k] = Sep /\ \A j \in 1..(k - 1) : s[j] # Sep
         IN  <<SubSeq(s, 1, i - 1)>> \o Split(SubSeq(s, i + 1, Len(s)))

Digits == <<"0", "1", "2", "3", "4", "5", "6", "7", "8", "9">>

IsDigit(c) == \E d \in DOMAIN Digits : Digits[d] = c

DigitVal(c) == (CHOOSE d \in DOMAIN Digits : Digits[d] = c) - 1

\* The digit loop of strconv.Atoi's fast path: n = n*10 + ch.
RECURSIVE ParseDigits(_, _)
ParseDigits(s, n) ==
    IF s = <<>> THEN n ELSE ParseDigits(Tail(s), n * 10 + DigitVal(Head(s)))

\* strconv.Atoi(s) for strings shorter than 19 characters (the fast path;
\* no value of that length is out of range): an optional sign, then one or
\* more decimal digits.
Atoi(s) ==
    IF s = <<>> THEN [ok |-> FALSE, val |-> 0]
    ELSE LET body == IF s[1] \in {"-", "+"} THEN Tail(s) ELSE s
         IN  IF body = <<>> \/ \E i \in DOMAIN body : ~IsDigit(body[i])
             THEN [ok |-> FALSE, val |-> 0]
             ELSE [ok  |-> TRUE,
                   val |-> IF s[1] = "-" THEN 0 - ParseDigits(body, 0)
                                         ELSE ParseDigits(body, 0)]

----------------------------------------------------------------------------
(***************************************************************************)
(* keyValue and the three walkers.                                         *)
(*                                                                         *)
(* A keyValue is [trail, path, info]: trail is the chain of names from the *)
(* root keyValue to this one (the parent pointers and the name field),     *)
(* path the remaining segments, info the index of the tensor in tensors.   *)
(***************************************************************************)
NoFuture == [set |-> FALSE]

\* keyValue.child(name)
child(kv, name) ==
    [trail |-> Append(kv.trail, name), path |-> Tail(kv.path), info |-> kv.info]

\* selectChildren without the test of the first segment against name.
selectChildrenAnyName(set, name) ==
    LET F[k \in 0..Len(set)] ==
            IF k = 0 THEN <<>>
            ELSE IF Len(set[k].path) = 0 THEN F[k - 1]
            ELSE Append(F[k - 1], child(set[k], name))
    IN  F[Len(set)]

\* selectChildren(set, name): the loop over set, in order.
selectChildren(set, name) ==
    LET F[k \in 0..Len(set)] ==
            IF k = 0 THEN <<>>
            ELSE IF Len(set[k].path) = 0 THEN F[k - 1]
            ELSE IF set[k].path[1] # name THEN F[k - 1]
            ELSE Append(F[k - 1], child(set[k], name))
    IN  F[Len(set)]

\* keys(set): the first segments present, "" for an entry without any.
keys(set) ==
    {IF Len(set[k].path) > 0 THEN set[k].path[1] ELSE <<>> : k \in DOMAIN set}

\* The walker UnmarshalOnDevice builds: one keyValue per tensor, with the
\* whole split name as its path.
rootWalker(ts) ==
    [type |-> "walkerData",
     set  |-> [i \in DOMAIN ts |->
                  [trail |-> <<>>, path |-> Split(ts[i].name), info |-> i]]]

\* walkerStruct.Field(name): the new walker, or the error.
Field(ws, name) ==
    LET children == selectChildren(ws.set, name)
    IN  IF Len(children) = 0
        THEN [err |-> "NoSuchField", keys |-> keys(ws.set)]
        ELSE [err |-> "", w |-> [type |-> "walkerData", set |-> children]]

\* walkerData.ToDataStruct()
ToDataStruct(wd) == [type |-> "walkerStruct", set |-> wd.set]

\* The map ToDataSlice has built after the first k entries of set.
sliceAfter(set, k) ==
    LET F[n \in 0..k] ==
            IF n = 0 THEN <<>>
            ELSE LET first == set[n].path[1]
                     i     == Atoi(first).val
                     old   == IF i \in DOMAIN F[n - 1] THEN F[n - 1][i] ELSE <<>>
                 IN  [j \in DOMAIN F[n - 1] \cup {i} |->
                         IF j = i THEN Append(old, child(set[n], first))
                                  ELSE F[n - 1][j]]
    IN  F[k]

\* Whether entry k of set makes ToDataSlice return an error, and which.
sliceEntryErr(kv) ==
    IF Len(kv.path) = 0 THEN "NoValue"
    ELSE IF ~Atoi(kv.path[1]).ok THEN "BadKey"
    ELSE ""

\* walkerData.ToDataSlice(): the loop stops at the first entry in error.
ToDataSlice(wd) ==
    LET bad == {k \in DOMAIN wd.set : sliceEntryErr(wd.set[k]) # ""}
    IN  IF bad # {}
        THEN [err |-> sliceEntryErr(wd.set[CHOOSE k \in bad : \A j \in bad : k <= j])]
        ELSE [err |-> "",
              w   |-> [type |-> "walkerSlice",
                       set  |-> sliceAfter(wd.set, Len(wd.set))]]

\* Len() as the largest index plus one.
SliceLenMaxPlusOne(wsl) ==
    IF DOMAIN wsl.set = {} THEN 0
    ELSE (CHOOSE i \in DOMAIN wsl.set : \A j \in DOMAIN wsl.set : j <= i) + 1

\* walkerSlice.Len()
SliceLen(wsl) == Cardinality(DOMAIN wsl.set)

\* walkerSlice.Index(i)
Index(wsl, i) ==
    IF i \notin DOMAIN wsl.set
    THEN [err |-> "NoSuchIndex"]
    ELSE [err |-> "", w |-> [type |-> "walkerData", set |-> wsl.set[i]]]

\* walkerData.ValueFuture()
ValueFuture(wd) ==
    IF Len(wd.set) = 0 THEN [err |-> "EmptyLeaf"]
    ELSE IF Len(wd.set) > 1 THEN [err |-> "NotALeaf"]
    ELSE [err |-> "", future |-> [set |-> TRUE, kv |-> wd.set[1]]]

----------------------------------------------------------------------------
(***************************************************************************)
(* The containers the walker is run on.                                    *)
(***************************************************************************)
\* A name table: the names one after the other, each followed by End.
End == "|"

NameTables ==
    UNION {{tab \in [1..k -> Chars \cup {End}] : k > 0 => tab[k] = End} :
             k \in 0..MaxChars}

\* The names of a name table, in order.
RECURSIVE NamesOf(_)
NamesOf(tab) ==
    IF tab = <<>> THEN <<>>
    ELSE LET i == CHOOSE k \in DOMAIN tab :
                      tab[k] = End /\ \A j \in 1..(k - 1) : tab[j] # End
         IN  <<SubSeq(tab, 1, i - 1)>> \o NamesOf(SubSeq(tab, i + 1, Len(tab)))

\* A tensor of the walker's container: only its name is read by the walker.
NamedTensor(s) == [name |-> s, size |-> 0, dims |-> <<>>]

\* The names Field is called with: every segment of the container, the
\* empty name, and a name.
FieldArgs ==
    UNION {{Split(tensors[i].name)[k] : k \in DOMAIN Split(tensors[i].name)} :
             i \in DOMAIN tensors}
      \cup {<<>>, <<"a">>}

Call(op, arg, err) == [op |-> op, arg |-> arg, err |-> err]

\* The walker UnmarshalOnDevice hands to the engine.
InitWalkerVars ==
    /\ w = rootWalker(tensors)
    /\ last = Call("UnmarshalOnDevice", <<>>, "")
    /\ base = <<>>
    /\ descent = <<>>
    /\ pure = TRUE
    /\ future = NoFuture

Threads == 1..NThreads

NoResult == [kind |-> "none"]

\* The decoder ToReaders returns: the mutex unlocked, no call under way.
InitGateVars ==
    /\ locker = FALSE
    /\ pc = [t \in Threads |-> "idle"]
    /\ ti = [t \in Threads |-> 0]
    /\ result = [t \in Threads |-> NoResult]
    /\ acq = [t \in Threads |-> 0]
    /\ rel = [t \in Threads |-> 0]
    /\ grants = 0
    /\ ticket = [t \in Threads |-> 0]

InitWalker ==
    /\ \E tab \in NameTables :
          tensors = [i \in DOMAIN NamesOf(tab) |-> NamedTensor(NamesOf(tab)[i])]
    /\ InitWalkerVars
    /\ InitGateVars

\* The engine goes on from the view it holds as long as no call has failed:
\* a failed call leaves the view as it is and ends the decoding.
Walking == last.err = ""

DoToDataStruct ==
    /\ Walking
    /\ w.type = "walkerData"
    /\ w' = ToDataStruct(w)
    /\ last' = Call("ToDataStruct", <<>>, "")
    /\ future' = NoFuture
    /\ UNCHANGED <<tensors, base, descent, pure>>
    /\ UNCHANGED gateVars

DoField ==
    /\ Walking
    /\ w.type = "walkerStruct"
    /\ \E name \in FieldArgs :
          LET r == Field(w, name)
          IN  /\ last' = Call("Field", name, r.err)
              /\ IF r.err = ""
                 THEN w' = r.w /\ descent' = Append(descent, name)
                 ELSE UNCHANGED <<w, descent>>
    /\ future' = NoFuture
    /\ UNCHANGED <<tensors, base, pure>>
    /\ UNCHANGED gateVars

DoToDataSlice ==
    /\ Walking
    /\ w.type = "walkerData"
    /\ LET r == ToDataSlice(w)
       IN  /\ last' = Call("ToDataSlice", <<>>, r.err)
           /\ IF r.err = ""
              THEN w' = r.w /\ base' = w.set /\ pure' = FALSE
              ELSE UNCHANGED <<w, base, pure>>
    /\ future' = NoFuture
    /\ UNCHANGED <<tensors, descent>>
    /\ UNCHANGED gateVars

DoIndex ==
    /\ Walking
    /\ w.type = "walkerSlice"
    /\ \E i \in DOMAIN w.set \cup (-1..MaxIndex) :
          LET r == Index(w, i)
          IN  /\ last' = Call("Index", i, r.err)
              /\ IF r.err = "" THEN w' = r.w ELSE UNCHANGED w
    /\ future' = NoFuture
    /\ UNCHANGED <<tensors, base, descent, pure>>
    /\ UNCHANGED gateVars

DoValueFuture ==
    /\ Walking
    /\ w.type = "walkerData"
    /\ LET r == ValueFuture(w)
       IN  /\ last' = Call("ValueFuture", <<>>, r.err)
           /\ future' = IF r.err = "" THEN r.future ELSE NoFuture
    /\ UNCHANGED <<tensors, w, base, descent, pure>>
    /\ UNCHANGED gateVars

Next ==
    \/ DoToDataStruct
    \/ DoField
    \/ DoToDataSlice
    \/ DoIndex
    \/ DoValueFuture

Spec == InitWalker /\ [][Next]_vars

----------------------------------------------------------------------------
(***************************************************************************)
(* arrayFuture.Value and the decoder's mutex.                              *)
(***************************************************************************)
float32ByteSize == 4

\* Reader() without its Lock().
canLockAlways(l) == TRUE

\* ti.dec.locker.Lock() in tensorInfo.Reader(): it returns only when the
\* mutex is unlocked.
canLock(l) == ~l

\* Reader() returning the error with the mutex still locked.
readerFailedKeepsLock(l) == l

\* tensorInfo.Reader(), the branch err != nil: ti.dec.locker.Unlock().
readerFailed(l) == FALSE

\* Close() that does not unlock.
readerCloseKeepsLock(l) == l

\* reader.Close(): r.dec.locker.Unlock().
readerClose(l) == FALSE

\* io.CopyN(&buf, r, size) on a stream that yields avail bytes before it
\* ends or fails: the bytes copied and the error.
CopyN(size, avail) ==
    IF avail >= size THEN [n |-> size, err |-> ""]
                     ELSE [n |-> avail, err |-> "EOF"]

\* length *= int(dim), over the dimensions.
RECURSIVE Product(_)
Product(dims) == IF dims = <<>> THEN 1 ELSE Head(dims) * Product(Tail(dims))

\* axes[len(dims)-1-i] = int(dim)
axesOf(dims) == [i \in 1..Len(dims) |-> dims[Len(dims) + 1 - i]]

Failure(err) == [kind |-> "error", err |-> err]

\* The body of arrayFuture.Value once the reader is open, on a stream that
\* yields avail bytes: the error returned, the array returned, or the
\* run-time panic of buf.Bytes()[0] on an empty buffer.  The dimensions of
\* the model are far below the width of int: no product wraps around.
valueBody(tensor, avail) ==
    LET c      == CopyN(tensor.size, avail)
        length == Product(tensor.dims)
    IN  IF c.err # "" THEN Failure("ReadError")
        ELSE IF c.n # tensor.size THEN Failure("NotEnoughBytes")
        ELSE IF length # tensor.size \div float32ByteSize
             THEN Failure("SizeMismatch")
        ELSE IF c.n = 0 THEN [kind |-> "panic"]
        ELSE [kind  |-> "array",
              axes  |-> axesOf(tensor.dims),
              elems |-> length]

\* pr.Value() is called on the future of tensor i: the call reaches
\* tensor.Reader() and its Lock().
CallValue(t, i) ==
    /\ pc[t] = "idle"
    /\ pc' = [pc EXCEPT ![t] = "Lock"]
    /\ ti' = [ti EXCEPT ![t] = i]
    /\ UNCHANGED <<locker, result, acq, rel, grants, ticket>>
    /\ UNCHANGED <<tensors, walkerVars>>

\* ti.dec.locker.Lock() returns.
ReaderLock(t) ==
    /\ pc[t] = "Lock"
    /\ canLock(locker)
    /\ locker' = TRUE
    /\ pc' = [pc EXCEPT ![t] = "Open"]
    /\ acq' = [acq EXCEPT ![t] = @ + 1]
    /\ grants' = grants + 1
    /\ ticket' = [ticket EXCEPT ![t] = grants + 1]
    /\ UNCHANGED <<ti, result, rel>>
    /\ UNCHANGED <<tensors, walkerVars>>

\* The mutex operations a step has made, counted from the mutex itself.
Released(t) ==
    rel' = [rel EXCEPT ![t] = IF locker /\ ~locker' THEN @ + 1 ELSE @]

\* ti.ti.Reader() returns: the stream, and Reader() returns the reader; or
\* an error, and Reader() unlocks and Value() returns the error.
ReaderOpen(t) ==
    /\ pc[t] = "Open"
    /\ \E ok \in BOOLEAN :
          IF ok
          THEN /\ pc' = [pc EXCEPT ![t] = "Read"]
               /\ UNCHANGED <<locker, result, rel>>
          ELSE /\ locker' = readerFailed(locker)
               /\ Released(t)
               /\ result' = [result EXCEPT ![t] = Failure("OpenError")]
               /\ pc' = [pc EXCEPT ![t] = "returned"]
    /\ UNCHANGED <<ti, acq, grants, ticket>>
    /\ UNCHANGED <<tensors, walkerVars>>

\* Value() from defer r.Close() to its return statement or its panic; the
\* deferred Close is still to run.
ValueRead(t) ==
    /\ pc[t] = "Read"
    /\ \E avail \in 0..tensors[ti[t]].size :
          result' = [result EXCEPT ![t] = valueBody(tensors[ti[t]], avail)]
    /\ pc' = [pc EXCEPT ![t] = "Close"]
    /\ UNCHANGED <<locker, ti, acq, rel, grants, ticket>>
    /\ UNCHANGED <<tensors, walkerVars>>

\* The deferred r.Close() runs, then Value() returns or the panic goes on
\* to the caller.
ReaderClose(t) ==
    /\ pc[t] = "Close"
    /\ locker' = readerClose(locker)
    /\ Released(t)
    /\ pc' = [pc EXCEPT ![t] =
                 IF result[t].kind = "panic" THEN "panicked" ELSE "returned"]
    /\ UNCHANGED <<ti, result, acq, grants, ticket>>
    /\ UNCHANGED <<tensors, walkerVars>>

Step(t) ==
    \/ \E i \in DOMAIN tensors : CallValue(t, i)
    \/ ReaderLock(t)
    \/ ReaderOpen(t)
    \/ ValueRead(t)
    \/ ReaderClose(t)

\* One goroutine, on a container of one tensor record.
DimLists == UNION {[1..k -> 0..MaxDim] : k \in 0..MaxRank}

Records ==
    {[name |-> <<"a">>, size |-> s, dims |-> d] : s \in 0..MaxSize, d \in DimLists}

InitValue ==
    /\ \E r \in Records : tensors = <<r>>
    /\ InitWalkerVars
    /\ InitGateVars

NextValue == Step(1)

ValueSpec == InitValue /\ [][NextValue]_vars

\* NThreads goroutines on a decoder of three tensors: one that Value()
\* returns as an array, one whose size does not match its dimensions, and
\* an empty one.
GateTensors ==
    << [name |-> <<"a">>, size |-> 8, dims |-> <<2>>],
       [name |-> <<"b">>, size |-> 8, dims |-> <<3>>],
       [name |-> <<"c">>, size |-> 0, dims |-> <<0>>] >>

InitGate ==
    /\ tensors = GateTensors
    /\ InitWalkerVars
    /\ InitGateVars

NextGate == \E t \in Threads : Step(t)

GateSpec == InitGate /\ [][NextGate]_vars

\* sync.Mutex hands the mutex to a goroutine that has waited for it (its
\* starvation mode), and a goroutine that is not blocked goes on running.
Fairness ==
    \A t \in Threads :
        /\ SF_vars(ReaderLock(t))
        /\ WF_vars(ReaderOpen(t) \/ ValueRead(t) \/ ReaderClose(t))

FairGateSpec == GateSpec /\ Fairness

----------------------------------------------------------------------------
(***************************************************************************)
(* Properties of the walker.                                               *)
(***************************************************************************)
IsPrefix(p, s) == Len(p) <= Len(s) /\ SubSeq(s, 1, Len(p)) = p

\* The tensors whose split name starts with the names d, in the container's
\* order, each with the segments after d left.
Matching(d) ==
    LET F[i \in 0..Len(tensors)] ==
            IF i = 0 THEN <<>>
            ELSE LET sp == Split(tensors[i].name)
                 IN  IF IsPrefix(d, sp)
                     THEN Append(F[i - 1],
                                 [trail |-> d,
                                  path  |-> SubSeq(sp, Len(d) + 1, Len(sp)),
                                  info  |-> i])
                     ELSE F[i - 1]
    IN  F[Len(tensors)]

\* Every keyValue of the walker the engine holds.
Entries ==
    IF w.type = "walkerSlice"
    THEN UNION {{w.set[i][k] : k \in DOMAIN w.set[i]} : i \in DOMAIN w.set}
    ELSE {w.set[k] : k \in DOMAIN w.set}

\* C8: the view reached from the root by Field(s1)...Field(sk) holds exactly
\* the tensors whose split name starts with s1..sk, in the original order,
\* each with the split name minus its first k segments; a Field call fails
\* exactly when no tensor's split name starts with the names so far followed
\* by the one asked for, and succeeds only with a non-empty view; in every
\* view the consumed names followed by the remaining segments are the
\* tensor's split name.
C8_ChainedDescent ==
    /\ pure =>
          /\ w.set = Matching(descent)
          /\ descent # <<>> => Len(w.set) > 0
          /\ (last.op = "Field" /\ last.err # "") =>
                 Matching(Append(descent, last.arg)) = <<>>
    /\ \A kv \in Entries : kv.trail \o kv.path = Split(tensors[kv.info].name)

\* Two Field calls with non-empty names were chained, and a tensor whose
\* name was used up by the first one is not in the view of the second while
\* another tensor is.
C8_Witness ==
    /\ pure
    /\ last.op = "Field" /\ last.err = ""
    /\ Len(descent) = 2
    /\ \A k \in DOMAIN descent : descent[k] # <<>>
    /\ Len(w.set) >= 1
    /\ \E i \in DOMAIN tensors : Split(tensors[i].name) = SubSeq(descent, 1, 1)

\* The integer indices among the next segments of a set.
Indices(set) == {Atoi(set[k].path[1]).val : k \in DOMAIN set}

\* The entries of set whose next segment parses to i, in order, each
\* truncated by that segment.
ElementsAt(set, i) ==
    LET F[k \in 0..Len(set)] ==
            IF k = 0 THEN <<>>
            ELSE IF Atoi(set[k].path[1]).val = i
                 THEN Append(F[k - 1],
                             [trail |-> Append(set[k].trail, set[k].path[1]),
                              path  |-> Tail(set[k].path),
                              info  |-> set[k].info])
                 ELSE F[k - 1]
    IN  F[Len(set)]

\* C9: Len() of a slice built by ToDataSlice is the number of distinct
\* integer indices among the next segments of the view it was built from;
\* Index(i) succeeds exactly for those indices, and then returns the entries
\* whose next segment parses to i, each truncated by that segment; it fails
\* with the no-such-index error for every other i.
C9_SliceLenIndex ==
    /\ w.type = "walkerSlice" =>
          /\ SliceLen(w) = Cardinality(Indices(base))
          /\ last.op = "Index" =>
                 last.err = "NoSuchIndex" /\ last.arg \notin Indices(base)
    /\ (last.op = "Index" /\ last.err = "") =>
          /\ last.arg \in Indices(base)
          /\ w = [type |-> "walkerData", set |-> ElementsAt(base, last.arg)]

\* The slice built from the indices 0, 1 and 2: Len() is 3 and Index(3) has
\* just failed.
C9_Witness ==
    /\ w.type = "walkerSlice"
    /\ DOMAIN w.set = {0, 1, 2}
    /\ SliceLen(w) = 3
    /\ last = Call("Index", 3, "NoSuchIndex")

\* A segment that is a base-10 non-negative integer: one or more digits.
IsIndexSegment(s) == s # <<>> /\ \A i \in DOMAIN s : IsDigit(s[i])

\* The view the last ToDataSlice call was made on.
SlicedView == IF last.err = "" THEN base ELSE w.set

\* C6 as stated: ToDataSlice succeeds exactly when every entry of the view
\* has a next segment and that segment is a base-10 non-negative integer
\* (no sign).
C6_MalformedIndex ==
    last.op = "ToDataSlice" =>
        (last.err = "" <=>
            \A k \in DOMAIN SlicedView :
                /\ Len(SlicedView[k].path) > 0
                /\ IsIndexSegment(SlicedView[k].path[1]))

\* C5 as stated: ValueFuture succeeds only on a view of exactly one entry
\* that has no segment left, and fails with the empty-leaf error on no entry
\* and with the not-a-leaf error on more than one.
C5_LeafOnly ==
    last.op = "ValueFuture" =>
        /\ last.err = "" => Len(w.set) = 1 /\ w.set[1].path = <<>>
        /\ Len(w.set) = 0 => last.err = "EmptyLeaf"
        /\ Len(w.set) > 1 => last.err = "NotALeaf"

----------------------------------------------------------------------------
(***************************************************************************)
(* Properties of Value() and of the decoder's mutex.                       *)
(***************************************************************************)
\* Where a goroutine is between Lock() and the matching Unlock().
Holding == {"Open", "Read", "Close"}

\* The goroutines that hold a reader Reader() has returned and Close() has
\* not closed yet.
StreamsOpen == {t \in Threads : pc[t] \in {"Read", "Close"}}

\* C1: at most one tensor stream is open at any instant, whatever the
\* interleaving of the Value() calls.
C1_OneStreamOpen == Cardinality(StreamsOpen) <= 1

\* One goroutine reads its stream while another is blocked in Reader() and
\* a third has already had a stream and returned its array.
C1_Witness ==
    \E t, u, v \in Threads :
        /\ pc[t] = "Read"
        /\ pc[u] = "Lock"
        /\ pc[v] = "returned" /\ result[v].kind = "array"

\* C2: once Reader() has failed to open the stream, the call has returned
\* with the mutex released: the mutex is locked only if another call holds
\* it, and when no call holds it any caller waiting in Reader() can lock it.
C2_FailedOpenReleases ==
    \A t \in Threads :
        result[t] = Failure("OpenError") =>
            /\ pc[t] = "returned"
            /\ rel[t] = acq[t]
            /\ locker => \E u \in Threads \ {t} : pc[u] \in Holding
            /\ \A u \in Threads :
                   (pc[u] = "Lock" /\ \A v \in Threads : pc[v] \notin Holding)
                       => ENABLED ReaderLock(u)

\* A Reader() call failed, and a later Reader() call of another goroutine
\* has locked the mutex and opened its stream.
C2_Witness ==
    \E t, u \in Threads :
        /\ result[t] = Failure("OpenError")
        /\ ticket[u] > ticket[t]
        /\ pc[u] = "Read"

\* C3: a Value() call locks the mutex at most once and unlocks it only
\* after locking it; a call that has ended, by a return or otherwise, has
\* locked it once and unlocked it once; the mutex is locked exactly while
\* some call is between its Lock() and its Unlock().
C3_PairedRelease ==
    /\ \A t \in Threads :
          /\ rel[t] <= acq[t] /\ acq[t] <= 1
          /\ pc[t] \in {"returned", "panicked"} => acq[t] = 1 /\ rel[t] = 1
          /\ acq[t] > rel[t] <=> pc[t] \in Holding
    /\ locker <=> \E t \in Threads : pc[t] \in Holding

\* Three calls have returned, one with the array, one with a read error
\* and one with the size mismatch, and the mutex is free.
C3_Witness ==
    /\ ~locker
    /\ \E t, u, v \in Threads :
          /\ pc[t] = "returned" /\ result[t].kind = "array"
          /\ pc[u] = "returned" /\ result[u] = Failure("ReadError")
          /\ pc[v] = "returned" /\ result[v] = Failure("SizeMismatch")

\* C4 as stated: a caller blocked in Reader() is eventually granted the
\* mutex, and every Value() call eventually returns.
C4_EveryCallReturns ==
    \A t \in Threads :
        /\ (pc[t] = "Lock") ~> (pc[t] \in Holding)
        /\ (pc[t] # "idle") ~> (pc[t] = "returned")

\* What holds of the mutex under the same fairness: a blocked caller is
\* eventually granted the mutex and every call eventually ends.
GrantedAndEnded ==
    \A t \in Threads :
        /\ (pc[t] = "Lock") ~> (pc[t] \in Holding)
        /\ (pc[t] # "idle") ~> (pc[t] \in {"returned", "panicked"})

\* C7 as stated: Value() returns an array only when the byte size is
\* exactly 4 times the product of the dimensions, and fails with the size
\* mismatch when the bytes were read and it is not.
C7_ByteExact ==
    \A t \in Threads :
        LET tensor == tensors[ti[t]]
            exact  == tensor.size = float32ByteSize * Product(tensor.dims)
        IN  result[t].kind # "none" =>
                /\ result[t].kind = "array" => exact
                /\ (~exact /\ result[t] \notin {Failure("OpenError"),
                                                  Failure("ReadError")}) =>
                       result[t] = Failure("SizeMismatch")

\* C10 as stated: Value() ends with an array or with a returned error.
C10_NoAbort ==
    \A t \in Threads : result[t].kind \in {"none", "array", "error"}

=============================================================================
